---------------------------- MODULE Spec2Model ----------------------------
(***************************************************************************)
(* scripts/corpus_util.py of libdeflate: the three commands `run`,         *)
(* `analyze` and `compare`, each as a state machine.                       *)
(*                                                                         *)
(* Numbers.  A Python float is modelled by the exact rational <<n, d>>     *)
(* (d > 0, lowest terms) it is nearest to: Python's int / int is the       *)
(* correctly rounded quotient, which keeps order and equality for the      *)
(* small operands used here.  The 6 significant digit formatting of        *)
(* f'{v:.6}' is computed (Fmt6), not assumed away.                         *)
(*                                                                         *)
(* Text.  A file name is the sequence of its character codes and is        *)
(* compared as Python compares str; a level is kept as the text f'{level}' *)
(* (a sequence of digit characters) because analyze never parses it.       *)
(***************************************************************************)
EXTENDS Integers, Sequences, FiniteSets, TLC

\* ------------------------------------------------------------ bounds
\* Largest speed (MB/s) the stub benchmark reports.
MaxSpeed == 2
\* Longest tabular report analyze is given.
MaxRows == 3
\* Longest summary report compare is given.
MaxEntries == 3

\* -------------------------------------------------- program constants
NTRIES == 3
FirstLevel == 1
LastLevel == 9
SigDigits == 6

None == "None"

\* ------------------------------------------------------------ numbers
Abs(x) == IF x < 0 THEN -x ELSE x

RECURSIVE GCD(_, _)
GCD(m, n) == IF n = 0 THEN m ELSE GCD(n, m % n)

\* p / q for q # 0, in lowest terms with a positive denominator.
Rat(p, q) ==
    LET g == GCD(Abs(p), Abs(q))
        s == IF q < 0 THEN -1 ELSE 1
    IN  <<(s * p) \div g, (s * q) \div g>>

RatLess(x, y) == x[1] * y[2] < y[1] * x[2]
RatLeq(x, y) == x[1] * y[2] <= y[1] * x[2]
RatAdd(x, y) == Rat(x[1] * y[2] + y[1] * x[2], x[2] * y[2])
\* x / y for y # 0.
RatQuot(x, y) == Rat(x[1] * y[2], x[2] * y[1])
One == <<1, 1>>
Zero == <<0, 1>>

RECURSIVE Pow10(_)
Pow10(k) == IF k = 0 THEN 1 ELSE 10 * Pow10(k - 1)

\* ------------------------------------------------------------ text
fa == <<97>>
fb == <<98>>
fab == <<97, 98>>
fc == <<99>>
fd == <<100>>

\* Python's str comparison: by code point, a proper prefix first.
RECURSIVE LexLess(_, _)
LexLess(s, t) ==
    IF s = <<>> THEN t # <<>>
    ELSE IF t = <<>> THEN FALSE
    ELSE IF Head(s) # Head(t) THEN Head(s) < Head(t)
    ELSE LexLess(Tail(s), Tail(t))

\* f'{level}' for a level >= 0: its decimal digits as character codes
\* ('0' is 48).
RECURSIVE LevelText(_)
LevelText(n) ==
    IF n < 10 THEN <<48 + n>> ELSE Append(LevelText(n \div 10), 48 + (n % 10))
\* int(text) of such a text.
RECURSIVE LevelValue(_)
LevelValue(text) ==
    IF text = <<>> THEN 0
    ELSE 10 * LevelValue(SubSeq(text, 1, Len(text) - 1)) + (text[Len(text)] - 48)

\* ============================================================ run
VARIABLES
    listing,      \* os.listdir(corpus_dir): the directory entries, in its order
    outs,         \* what one invocation of the benchmark program may do
    pc,           \* where `run` is
    fi,           \* index into listing of the current file (outer for loop)
    level,        \* current level (inner for loop)
    use_libz,     \* run_benchmark_prog's third argument
    tries,        \* iterations of `for _ in range(NTRIES)` completed
    usize,        \* run_benchmark_prog's locals (-1: not yet bound)
    csize,
    cspeed,
    cand,         \* the (usize, csize, cspeed) returned for the candidate
    inflight,     \* benchmark child processes that are running
    output,       \* captured output not yet parsed
    header,       \* the header line has been handed to sys.stdout
    rows,         \* the rows handed to sys.stdout, oldest first
    delivered,    \* lines that have left sys.stdout's buffer
    err,          \* the exception that ended the run
    calls,        \* history: invocations started for the current pair
    speeds        \* history: speeds parsed for the current pair

runVars == <<listing, outs, pc, fi, level, use_libz, tries, usize, csize,
             cspeed, cand, inflight, output, header, rows, delivered, err,
             calls, speeds>>

VARIABLES
    report,         \* analyze's input file: its columns and its data rows
    apc,            \* where `analyze` is
    all_rows,
    rows_by_file,
    rows_by_level,
    aheader,        \* ['name', 'value'] has been written
    aout,           \* the statistics written, oldest first
    aerr            \* the exception that ended analyze

anVars == <<report, apc, all_rows, rows_by_file, rows_by_level, aheader, aout,
            aerr>>

VARIABLES
    sfile,          \* compare's two input files, in argument order
    cpc,            \* where `compare` is
    summary_1,
    summary_2,
    comparisons,
    clines,         \* the lines printed, oldest first
    cerr            \* the exception that ended compare

cmpVars == <<sfile, cpc, summary_1, summary_2, comparisons, clines, cerr>>

vars == <<runVars, anVars, cmpVars>>

\* One invocation's outcome: whether the process started, its exit status,
\* the two numbers of 'Compressed U => C bytes' (<<>>: no such line) and the
\* number of 'Compression time: T ms (S MB/s)' (-1: no such line).
Ok(u, c, s) == [started |-> TRUE, status |-> 0, sizes |-> <<u, c>>, speed |-> s]
CannotStart == [started |-> FALSE, status |-> 0, sizes |-> <<>>, speed |-> -1]
ExitNonZero == [started |-> TRUE, status |-> 1, sizes |-> <<>>, speed |-> -1]
NoSizesLine == [started |-> TRUE, status |-> 0, sizes |-> <<>>, speed |-> 1]
NoSpeedLine == [started |-> TRUE, status |-> 0, sizes |-> <<1, 1>>, speed |-> -1]
NoOutput == [started |-> FALSE, status |-> 0, sizes |-> <<>>, speed |-> -1]
Failures == {CannotStart, ExitNonZero, NoSizesLine, NoSpeedLine}

\* The benchmark stub of the collector: any sizes in {0, 2} x {0, 1}, any
\* speed in 0..MaxSpeed, any failure.
CollectorOuts ==
    {Ok(u, c, s) : u \in {0, 2}, c \in {0, 1}, s \in 0..MaxSpeed} \cup Failures
\* The benchmark stub of the whole run: two input sizes, one speed, any
\* failure.
DriverOuts == {Ok(1, 1, 1), Ok(2, 2, 1)} \cup Failures

Lines == (IF header THEN 1 ELSE 0) + Len(rows)
Path == listing[fi]

\* sys.stdout is a buffered text stream and the script never flushes it:
\* after a write any prefix of the pending lines may have left the buffer
\* (all of them on a terminal, none of them until 8 KiB on a pipe or file).
BufferedWrite(n) == \E d \in delivered..n : delivered' = d

\* Mutation: the exception is swallowed and the run goes on with the next
\* level.
FailSwallow(kind) ==
    /\ pc' = "level_loop"
    /\ err' = kind
    /\ output' = NoOutput
    /\ UNCHANGED <<listing, outs, fi, level, use_libz, tries, usize, csize,
                   cspeed, cand, header, rows, delivered, calls, speeds>>

\* An uncaught exception: the interpreter exits, flushing sys.stdout.
Fail(kind) ==
    /\ pc' = "failed"
    /\ err' = kind
    /\ delivered' = Lines
    /\ output' = NoOutput
    /\ UNCHANGED <<listing, outs, fi, level, use_libz, tries, usize, csize,
                   cspeed, cand, header, rows, calls, speeds>>

\* Mutation: the speed of the last try instead of the best one.
BestSpeedLast(best, s) == s

\* max(cspeed, int(match.group(1)))
BestSpeed(best, s) == IF s > best THEN s ELSE best

\* The row benchmark_file_level writes.
RowOf(file, lvl, c, z) ==
    [file |-> file,
     level |-> LevelText(lvl),
     abs_comp_ratio |-> Rat(c[2], c[1]),
     rel_comp_ratio |-> Rat(c[2], z[2]),
     rel_comp_time |-> Rat(z[3], c[3])]

\* writer.writeheader()
WriteHeader ==
    /\ UNCHANGED <<anVars, cmpVars>>
    /\ pc = "start"
    /\ header' = TRUE
    /\ BufferedWrite(1)
    /\ pc' = "file_loop"
    /\ UNCHANGED <<listing, outs, fi, level, use_libz, tries, usize, csize,
                   cspeed, cand, inflight, output, rows, err, calls, speeds>>

\* for filename in os.listdir(corpus_dir); when exhausted the script ends and
\* the interpreter flushes sys.stdout.
NextFile ==
    /\ UNCHANGED <<anVars, cmpVars>>
    /\ pc = "file_loop"
    /\ IF fi < Len(listing)
       THEN /\ fi' = fi + 1
            /\ level' = FirstLevel - 1
            /\ pc' = "level_loop"
            /\ UNCHANGED delivered
       ELSE /\ pc' = "done"
            /\ delivered' = Lines
            /\ UNCHANGED <<fi, level>>
    /\ UNCHANGED <<listing, outs, use_libz, tries, usize, csize, cspeed, cand,
                   inflight, output, header, rows, err, calls, speeds>>

\* for level in range(1, 10): benchmark_file_level(writer, path, level), up to
\* the entry of run_benchmark_prog(path, level, False).
NextLevel ==
    /\ UNCHANGED <<anVars, cmpVars>>
    /\ pc = "level_loop"
    /\ IF level < LastLevel
       THEN /\ level' = level + 1
            /\ use_libz' = FALSE
            /\ tries' = 0
            /\ usize' = -1
            /\ csize' = -1
            /\ cspeed' = -1
            /\ cand' = <<>>
            /\ calls' = [cand |-> 0, base |-> 0]
            /\ speeds' = [cand |-> <<>>, base |-> <<>>]
            /\ pc' = "invoke"
       ELSE /\ pc' = "file_loop"
            /\ UNCHANGED <<level, use_libz, tries, usize, csize, cspeed, cand,
                           calls, speeds>>
    /\ UNCHANGED <<listing, outs, fi, inflight, output, header, rows,
                   delivered, err>>

Who == IF use_libz THEN "base" ELSE "cand"

\* subprocess.check_output(args), first half: the child is started.
Invoke ==
    /\ UNCHANGED <<anVars, cmpVars>>
    /\ pc = "invoke"
    /\ \/ /\ CannotStart \in outs
          /\ Fail("ProcessError")
          /\ UNCHANGED inflight
       \/ /\ \E o \in outs : o.started
          /\ inflight' = inflight + 1
          /\ calls' = [calls EXCEPT ![Who] = @ + 1]
          /\ pc' = "wait"
          /\ UNCHANGED <<listing, outs, fi, level, use_libz, tries, usize,
                         csize, cspeed, cand, output, header, rows, delivered,
                         err, speeds>>

\* Mutation: the output is taken without waiting for the child to exit.
CaptureNoWait ==
    /\ UNCHANGED <<anVars, cmpVars>>
    /\ pc = "wait"
    /\ \E o \in outs :
         /\ o.started
         /\ o.status = 0
         /\ output' = o
         /\ pc' = "parse"
         /\ UNCHANGED <<listing, outs, fi, level, use_libz, tries, usize,
                        csize, cspeed, cand, inflight, header, rows, delivered,
                        err, calls, speeds>>

\* subprocess.check_output(args), second half: it blocks until the child has
\* exited and all of its output is read; a non-zero status raises.
Capture ==
    /\ UNCHANGED <<anVars, cmpVars>>
    /\ pc = "wait"
    /\ inflight' = inflight - 1
    /\ \E o \in outs :
         /\ o.started
         /\ IF o.status # 0
            THEN Fail("ProcessError")
            ELSE /\ output' = o
                 /\ pc' = "parse"
                 /\ UNCHANGED <<listing, outs, fi, level, use_libz, tries,
                                usize, csize, cspeed, cand, header, rows,
                                delivered, err, calls, speeds>>

\* The two re.search calls of one iteration, the end of the loop and the
\* return; after the candidate's return, the entry of
\* run_benchmark_prog(path, level, True).
Parse ==
    /\ UNCHANGED <<anVars, cmpVars>>
    /\ pc = "parse"
    /\ IF output.sizes = <<>> \/ output.speed = -1
       THEN /\ Fail("ParseError")
            /\ UNCHANGED inflight
       ELSE LET best == BestSpeed(cspeed, output.speed)
                last == tries + 1 = NTRIES
            IN  /\ output' = NoOutput
                /\ speeds' = [speeds EXCEPT ![Who] = Append(@, output.speed)]
                /\ IF last /\ ~use_libz
                   THEN /\ cand' = <<output.sizes[1], output.sizes[2], best>>
                        /\ use_libz' = TRUE
                        /\ tries' = 0
                        /\ usize' = -1
                        /\ csize' = -1
                        /\ cspeed' = -1
                        /\ pc' = "invoke"
                   ELSE /\ usize' = output.sizes[1]
                        /\ csize' = output.sizes[2]
                        /\ cspeed' = best
                        /\ tries' = tries + 1
                        /\ pc' = IF last THEN "combine" ELSE "invoke"
                        /\ UNCHANGED <<cand, use_libz>>
                /\ UNCHANGED <<listing, outs, fi, level, inflight, header,
                               rows, delivered, err, calls>>

\* benchmark_file_level after both calls returned: the assertion, the three
\* divisions and writer.writerow.
Combine ==
    /\ UNCHANGED <<anVars, cmpVars>>
    /\ pc = "combine"
    /\ UNCHANGED inflight
    /\ LET z == <<usize, csize, cspeed>>
       IN  IF cand[1] # z[1] THEN Fail("AssertionError")
           ELSE IF cand[1] = 0 \/ z[2] = 0 \/ cand[3] = 0
           THEN Fail("ZeroDivisionError")
           ELSE /\ rows' = Append(rows, RowOf(Path, level, cand, z))
                /\ BufferedWrite(Lines + 1)
                /\ pc' = "level_loop"
                /\ UNCHANGED <<listing, outs, fi, level, use_libz, tries,
                               usize, csize, cspeed, cand, output, header, err,
                               calls, speeds>>

\* ============================================================ analyze
\* A cell that float() rejects.
Bad == <<>>
Columns == {"file", "level", "abs_comp_ratio", "rel_comp_ratio", "rel_comp_time"}

\* f'{v:.6}' read back as a number: v rounded to SigDigits significant
\* digits (ties to even; a float is never exactly on a tie of its own
\* decimal expansion, and no value of the bounded inputs is).
RECURSIVE ExpDown(_, _, _)
ExpDown(p, q, e) == IF p >= 10 * q THEN ExpDown(p, 10 * q, e + 1) ELSE e
RECURSIVE ExpUp(_, _, _)
ExpUp(p, q, e) == IF p < q THEN ExpUp(10 * p, q, e - 1) ELSE e
\* e with 10^e <= p/q < 10^(e+1), for p/q > 0.
Exp10(p, q) == IF p >= q THEN ExpDown(p, q, 0) ELSE ExpUp(p, q, 0)
RoundHalfEven(n, d) ==
    LET f == n \div d
        r == n % d
    IN  IF 2 * r < d THEN f
        ELSE IF 2 * r > d THEN f + 1
        ELSE IF f % 2 = 0 THEN f ELSE f + 1
Fmt6Pos(p, q) ==
    LET e == Exp10(p, q)
        k == (SigDigits - 1) - e
        m == IF k >= 0 THEN RoundHalfEven(p * Pow10(k), q)
                       ELSE RoundHalfEven(p, q * Pow10(-k))
    IN  IF k >= 0 THEN Rat(m, Pow10(k)) ELSE Rat(m * Pow10(-k), 1)
Fmt6(v) ==
    IF v[1] = 0 THEN Zero
    ELSE IF v[1] < 0 THEN LET r == Fmt6Pos(-v[1], v[2]) IN <<-r[1], r[2]>>
    ELSE Fmt6Pos(v[1], v[2])

RECURSIVE SumOf(_)
SumOf(vs) == IF vs = <<>> THEN Zero ELSE RatAdd(Head(vs), SumOf(Tail(vs)))
\* statistics.mean of a non-empty list
Mean(vs) == RatQuot(SumOf(vs), <<Len(vs), 1>>)
Field(rs, f) == [i \in 1..Len(rs) |-> rs[i][f]]
\* Mutation: >= 1 instead of > 1.
CountWorseOrEqual(rs, f) ==
    Cardinality({i \in 1..Len(rs) : RatLeq(One, rs[i][f])})
\* len([row for row in rows if row[f] > 1])
CountWorse(rs, f) == Cardinality({i \in 1..Len(rs) : RatLess(One, rs[i][f])})

avg_rel_comp_ratio(rs) == Fmt6(Mean(Field(rs, "rel_comp_ratio")))
avg_rel_comp_time(rs) == Fmt6(Mean(Field(rs, "rel_comp_time")))
worse_comp_ratio(rs) ==
    Fmt6(RatAdd(One, Rat(CountWorse(rs, "rel_comp_ratio"), Len(rs))))
worse_comp_time(rs) ==
    Fmt6(RatAdd(One, Rat(CountWorse(rs, "rel_comp_time"), Len(rs))))

Kinds == <<"avg_rel_comp_ratio", "avg_rel_comp_time", "worse_comp_ratio",
           "worse_comp_time">>
Stat(kind, rs) ==
    CASE kind = "avg_rel_comp_ratio" -> avg_rel_comp_ratio(rs)
      [] kind = "avg_rel_comp_time" -> avg_rel_comp_time(rs)
      [] kind = "worse_comp_ratio" -> worse_comp_ratio(rs)
      [] kind = "worse_comp_time" -> worse_comp_time(rs)

\* A statistic's name: 'all_<kind>', 'file_<key>_<kind>', 'level<key>_<kind>'.
Entry(scope, key, kind, rs) ==
    [scope |-> scope, key |-> key, kind |-> kind, value |-> Stat(kind, rs)]

\* Mutation: the keys in descending order.
RECURSIVE SortedKeysReverse(_)
SortedKeysReverse(S) ==
    IF S = {} THEN <<>>
    ELSE LET most == CHOOSE x \in S : \A y \in S \ {x} : LexLess(y, x)
         IN  <<most>> \o SortedKeysReverse(S \ {most})

\* sorted() of a dict's items: by key, the keys being distinct str.
RECURSIVE SortedKeys(_)
SortedKeys(S) ==
    IF S = {} THEN <<>>
    ELSE LET least == CHOOSE x \in S : \A y \in S \ {x} : LexLess(x, y)
         IN  <<least>> \o SortedKeys(S \ {least})

\* One `for ... in sorted(groups.items())` loop of analyze.
KindLoop(scope, groups, kind) ==
    LET keys == SortedKeys(DOMAIN groups)
    IN  [i \in 1..Len(keys) |-> Entry(scope, keys[i], kind, groups[keys[i]])]

\* The four loops over one dict.
GroupLoops(scope, groups) ==
    KindLoop(scope, groups, Kinds[1]) \o KindLoop(scope, groups, Kinds[2])
        \o KindLoop(scope, groups, Kinds[3]) \o KindLoop(scope, groups, Kinds[4])

\* rows_by_file / rows_by_level: setdefault(key, []).append(row)
GroupBy(rs, f) ==
    [key \in {rs[i][f] : i \in 1..Len(rs)} |->
        SelectSeq(rs, LAMBDA r : r[f] = key)]

\* The first exception one iteration of the loading loop raises, or None:
\* row['file'], row['level'], then float(row[field]) field by field.
RECURSIVE FieldError(_, _, _)
FieldError(cols, r, fields) ==
    IF fields = <<>> THEN None
    ELSE IF Head(fields) \notin cols THEN "KeyError"
    ELSE IF Head(fields) \notin {"file", "level"} /\ r[Head(fields)] = Bad
    THEN "ValueError"
    ELSE FieldError(cols, r, Tail(fields))
RowError(cols, r) ==
    FieldError(cols, r, <<"file", "level", "abs_comp_ratio", "rel_comp_ratio",
                          "rel_comp_time">>)
RECURSIVE LoadError(_, _)
LoadError(cols, rs) ==
    IF rs = <<>> THEN None
    ELSE IF RowError(cols, Head(rs)) # None THEN RowError(cols, Head(rs))
    ELSE LoadError(cols, Tail(rs))

\* analyze, lines 78-90: the whole file is read before anything is written.
AnalyzeLoad ==
    /\ UNCHANGED <<runVars, cmpVars>>
    /\ apc = "load"
    /\ IF LoadError(report.cols, report.rows) # None
       THEN /\ apc' = "failed"
            /\ aerr' = LoadError(report.cols, report.rows)
            /\ UNCHANGED <<all_rows, rows_by_file, rows_by_level>>
       ELSE /\ all_rows' = report.rows
            /\ rows_by_file' = GroupBy(report.rows, "file")
            /\ rows_by_level' = GroupBy(report.rows, "level")
            /\ apc' = "header"
            /\ UNCHANGED aerr
    /\ UNCHANGED <<report, aheader, aout>>

\* writer.writerow(['name', 'value'])
AnalyzeHeader ==
    /\ UNCHANGED <<runVars, cmpVars>>
    /\ apc = "header"
    /\ aheader' = TRUE
    /\ apc' = "all"
    /\ UNCHANGED <<report, all_rows, rows_by_file, rows_by_level, aout, aerr>>

\* The four all_ rows; statistics.mean raises StatisticsError on no data.
AnalyzeAll ==
    /\ UNCHANGED <<runVars, cmpVars>>
    /\ apc = "all"
    /\ IF all_rows = <<>>
       THEN /\ apc' = "failed"
            /\ aerr' = "StatisticsError"
            /\ UNCHANGED aout
       ELSE /\ aout' = aout \o [i \in 1..4 |-> Entry("all", <<>>, Kinds[i], all_rows)]
            /\ apc' = "files"
            /\ UNCHANGED aerr
    /\ UNCHANGED <<report, all_rows, rows_by_file, rows_by_level, aheader>>

\* The four loops over rows_by_file.
AnalyzeFiles ==
    /\ UNCHANGED <<runVars, cmpVars>>
    /\ apc = "files"
    /\ aout' = aout \o GroupLoops("file", rows_by_file)
    /\ apc' = "levels"
    /\ UNCHANGED <<report, all_rows, rows_by_file, rows_by_level, aheader, aerr>>

\* The four loops over rows_by_level.
AnalyzeLevels ==
    /\ UNCHANGED <<runVars, cmpVars>>
    /\ apc = "levels"
    /\ aout' = aout \o GroupLoops("level", rows_by_level)
    /\ apc' = "done"
    /\ UNCHANGED <<report, all_rows, rows_by_file, rows_by_level, aheader, aerr>>

\* ============================================================ compare
\* load_summary: summary[name] = value row by row, so the last row of a
\* name wins.
LoadSummary(f) ==
    [n \in {f[i].name : i \in 1..Len(f)} |->
        LET last == CHOOSE i \in 1..Len(f) :
                        /\ f[i].name = n
                        /\ \A j \in (i + 1)..Len(f) : f[j].name # n
        IN  f[last].value]

\* set(summary_1.keys()) & set(summary_2.keys())
CommonNames(s1, s2) == DOMAIN s1 \cap DOMAIN s2

\* Mutation: the two reports taken in the other order.
ComparisonSwapped(val1, val2) == <<val2, val1, RatQuot(val1, val2)>>

\* (val1, val2, val2 / val1)
Comparison(val1, val2) == <<val1, val2, RatQuot(val2, val1)>>

\* Mutation: descending order of ratio.
SortedByRatioReverse(order, cmp) ==
    \A i \in 1..(Len(order) - 1) : RatLeq(cmp[order[i + 1]][3], cmp[order[i]][3])

\* key=lambda item: item[1][2]: the order sorted() may return, the
\* iteration order of a set being arbitrary.
SortedByRatio(order, cmp) ==
    \A i \in 1..(Len(order) - 1) : RatLeq(cmp[order[i]][3], cmp[order[i + 1]][3])

Orders(S) ==
    {o \in [1..Cardinality(S) -> S] : \A i, j \in DOMAIN o : i # j => o[i] # o[j]}

CompareLoad1 ==
    /\ UNCHANGED <<runVars, anVars>>
    /\ cpc = "load1"
    /\ summary_1' = LoadSummary(sfile[1])
    /\ cpc' = "load2"
    /\ UNCHANGED <<sfile, summary_2, comparisons, clines, cerr>>

CompareLoad2 ==
    /\ UNCHANGED <<runVars, anVars>>
    /\ cpc = "load2"
    /\ summary_2' = LoadSummary(sfile[2])
    /\ cpc' = "join"
    /\ UNCHANGED <<sfile, summary_1, comparisons, clines, cerr>>

\* compare, lines 145-150; a float division by 0.0 raises.
CompareJoin ==
    /\ UNCHANGED <<runVars, anVars>>
    /\ cpc = "join"
    /\ LET names == CommonNames(summary_1, summary_2)
       IN  IF \E n \in names : summary_1[n] = Zero
           THEN /\ cpc' = "failed"
                /\ cerr' = "ZeroDivisionError"
                /\ UNCHANGED comparisons
           ELSE /\ comparisons' =
                      [n \in names |-> Comparison(summary_1[n], summary_2[n])]
                /\ cpc' = "print"
                /\ UNCHANGED cerr
    /\ UNCHANGED <<sfile, summary_1, summary_2, clines>>

\* compare, lines 152-153: print(f'{k}: {v[0]} => {v[1]} ({v[2]})')
ComparePrint ==
    /\ UNCHANGED <<runVars, anVars>>
    /\ cpc = "print"
    /\ \E order \in Orders(DOMAIN comparisons) :
         /\ SortedByRatio(order, comparisons)
         /\ clines' = [i \in 1..Len(order) |->
                         [name |-> order[i],
                          before |-> comparisons[order[i]][1],
                          after |-> comparisons[order[i]][2],
                          ratio |-> comparisons[order[i]][3]]]
    /\ cpc' = "done"
    /\ UNCHANGED <<sfile, summary_1, summary_2, comparisons, cerr>>

\* ============================================================ inputs
Listings == {<<>>, <<fa>>, <<fb>>, <<fa, fb>>, <<fb, fa>>}

AnFiles == {fab, fb}
AnLevels == {LevelText(2), LevelText(10)}
AnValues == {<<Rat(9, 10), One>>, <<One, Rat(11, 10)>>,
             <<Rat(11, 10), Rat(9, 10)>>, <<Rat(11, 10), Rat(11, 10)>>}
GoodRows ==
    {[file |-> f, level |-> l, abs_comp_ratio |-> Rat(1, 2),
      rel_comp_ratio |-> v[1], rel_comp_time |-> v[2]] :
        f \in AnFiles, l \in AnLevels, v \in AnValues}
BadRows ==
    {[file |-> fb, level |-> LevelText(2), abs_comp_ratio |-> Rat(1, 2),
      rel_comp_ratio |-> Bad, rel_comp_time |-> One]}
SeqsUpTo(S, n) == UNION {[1..k -> S] : k \in 0..n}
Reports ==
    [cols : {Columns, Columns \ {"rel_comp_time"}},
     rows : SeqsUpTo(GoodRows \cup BadRows, MaxRows)]

\* Summary reports: one row per name (a repeated name is malformed input),
\* rows in ascending order of name; load_summary does not depend on the
\* order of rows of different names.
SNames == {fa, fb, fc, fd}
Summaries(values) ==
    {f \in SeqsUpTo([name : SNames, value : values], MaxEntries) :
        \A i \in 1..(Len(f) - 1) : LexLess(f[i].name, f[i + 1].name)}

\* ============================================================ specs
RunIdle ==
    /\ listing = <<>> /\ outs = {} /\ pc = "idle" /\ fi = 0 /\ level = 0
    /\ use_libz = FALSE /\ tries = 0 /\ usize = -1 /\ csize = -1
    /\ cspeed = -1 /\ cand = <<>> /\ inflight = 0 /\ output = NoOutput
    /\ header = FALSE /\ rows = <<>> /\ delivered = 0 /\ err = None
    /\ calls = [cand |-> 0, base |-> 0]
    /\ speeds = [cand |-> <<>>, base |-> <<>>]
AnIdle ==
    /\ report = [cols |-> Columns, rows |-> <<>>] /\ apc = "idle"
    /\ all_rows = <<>> /\ rows_by_file = <<>> /\ rows_by_level = <<>>
    /\ aheader = FALSE /\ aout = <<>> /\ aerr = None
CmpIdle ==
    /\ sfile = <<<<>>, <<>>>> /\ cpc = "idle" /\ summary_1 = <<>>
    /\ summary_2 = <<>> /\ comparisons = <<>> /\ clines = <<>> /\ cerr = None

\* `corpus_util.py run CORPUS_DIR`, at the first line of run.
InitRun ==
    /\ listing \in Listings /\ outs = DriverOuts /\ pc = "start" /\ fi = 0
    /\ level = 0 /\ use_libz = FALSE /\ tries = 0 /\ usize = -1 /\ csize = -1
    /\ cspeed = -1 /\ cand = <<>> /\ inflight = 0 /\ output = NoOutput
    /\ header = FALSE /\ rows = <<>> /\ delivered = 0 /\ err = None
    /\ calls = [cand |-> 0, base |-> 0]
    /\ speeds = [cand |-> <<>>, base |-> <<>>]
    /\ AnIdle /\ CmpIdle
NextRun ==
    WriteHeader \/ NextFile \/ NextLevel \/ Invoke \/ Capture \/ Parse \/ Combine
Spec == InitRun /\ [][NextRun]_vars

\* One call benchmark_file_level(writer, path, level), at the entry of its
\* first run_benchmark_prog, with a writer whose header is written.
InitCollect ==
    /\ listing \in {<<fa>>} /\ outs = CollectorOuts /\ pc = "invoke" /\ fi = 1
    /\ level \in {FirstLevel, LastLevel}
    /\ use_libz = FALSE /\ tries = 0 /\ usize = -1 /\ csize = -1
    /\ cspeed = -1 /\ cand = <<>> /\ inflight = 0 /\ output = NoOutput
    /\ header = TRUE /\ rows = <<>> /\ delivered \in {0, 1} /\ err = None
    /\ calls = [cand |-> 0, base |-> 0]
    /\ speeds = [cand |-> <<>>, base |-> <<>>]
    /\ AnIdle /\ CmpIdle
NextCollect == Invoke \/ Capture \/ Parse \/ Combine
SpecCollect == InitCollect /\ [][NextCollect]_vars

\* `corpus_util.py analyze BENCHMARK_RESULTS_CSV`
InitAnalyze ==
    /\ report \in Reports /\ apc = "load"
    /\ all_rows = <<>> /\ rows_by_file = <<>> /\ rows_by_level = <<>>
    /\ aheader = FALSE /\ aout = <<>> /\ aerr = None
    /\ RunIdle /\ CmpIdle
NextAnalyze ==
    AnalyzeLoad \/ AnalyzeHeader \/ AnalyzeAll \/ AnalyzeFiles \/ AnalyzeLevels
SpecAnalyze == InitAnalyze /\ [][NextAnalyze]_vars

\* `corpus_util.py compare SUMMARY_1_CSV SUMMARY_2_CSV`
InitCompare ==
    /\ sfile \in Summaries({Zero, One, <<2, 1>>}) \X Summaries({One, <<2, 1>>})
    /\ cpc = "load1" /\ summary_1 = <<>>
    /\ summary_2 = <<>> /\ comparisons = <<>> /\ clines = <<>> /\ cerr = None
    /\ RunIdle /\ AnIdle
NextCompare == CompareLoad1 \/ CompareLoad2 \/ CompareJoin \/ ComparePrint
SpecCompare == InitCompare /\ [][NextCompare]_vars

\* ============================================================ claims
MaxOf(sq) ==
    CHOOSE m \in {sq[i] : i \in DOMAIN sq} : \A j \in DOMAIN sq : sq[j] <= m

\* C1: when both run_benchmark_prog calls of a (file, level) have returned,
\* the benchmark was started exactly NTRIES times without and exactly NTRIES
\* times with `-C libz`, and the row written has rel_comp_time = (largest of
\* the NTRIES baseline speeds) / (largest of the NTRIES candidate speeds),
\* abs_comp_ratio = candidate compressed / candidate uncompressed size and
\* rel_comp_ratio = candidate compressed / baseline compressed size.
C1_BestOfNTries ==
    /\ (pc \in {"combine", "level_loop"}
            \/ err \in {"AssertionError", "ZeroDivisionError"})
        => /\ calls = [cand |-> NTRIES, base |-> NTRIES]
           /\ Len(speeds.cand) = NTRIES
           /\ Len(speeds.base) = NTRIES
    /\ rows # <<>>
        => LET r == rows[Len(rows)]
           IN  /\ Len(rows) = 1
               /\ r.file = Path
               /\ r.level = LevelText(level)
               /\ r.rel_comp_time[1] * MaxOf(speeds.cand)
                      = r.rel_comp_time[2] * MaxOf(speeds.base)
               /\ r.abs_comp_ratio[1] * cand[1] = r.abs_comp_ratio[2] * cand[2]
               /\ r.rel_comp_ratio[1] * csize = r.rel_comp_ratio[2] * cand[2]

\* C1 witness: candidate speeds low, high, low and baseline speeds high,
\* low, middle (the shape of [10, 15, 12] and [20, 18, 19]) and a row
\* written with rel_comp_time = 2 / 1.
C1_Witness ==
    /\ rows # <<>>
    /\ speeds.cand = <<0, 1, 0>>
    /\ speeds.base = <<2, 0, 1>>
    /\ rows[1].rel_comp_time = <<2, 1>>

\* C2: once run has hit a fatal error (process not started, non-zero exit,
\* a pattern absent, uncompressed sizes differing) it has stopped: no row
\* of the failing pair exists, no child is running, and from then on no
\* row is written and no benchmark is started; sizes that differ and a
\* missing pattern are such errors.
C2_FatalAborts ==
    /\ [](err # None =>
            /\ pc = "failed"
            /\ inflight = 0
            /\ \A i \in 1..Len(rows) :
                 ~(rows[i].file = Path /\ rows[i].level = LevelText(level)))
    /\ [][err # None => UNCHANGED <<pc, header, rows, calls, inflight>>]_vars
    /\ [][(pc = "combine" /\ cand[1] # usize)
            => (err' = "AssertionError" /\ rows' = rows)]_vars
    /\ [][(pc = "parse" /\ (output.sizes = <<>> \/ output.speed = -1))
            => (err' = "ParseError" /\ rows' = rows)]_vars

\* C2 witness: the sizes differ for a pair after rows of earlier pairs were
\* written.
C2_Witness ==
    /\ err = "AssertionError"
    /\ cand[1] = 1 /\ usize = 2
    /\ Len(rows) = 10

\* C8 (as claimed): while a benchmark child is running, everything handed
\* to the output so far (the header and the rows of all completed pairs)
\* has left the process, and those rows are in enumeration order.
C8_FlushedPerRow ==
    pc = "wait" =>
        /\ header
        /\ delivered = Lines
        /\ Len(rows) = (LastLevel - FirstLevel + 1) * (fi - 1) + (level - FirstLevel)

\* C9 (as claimed): no row computation divides by zero, and every row
\* written has abs_comp_ratio > 0, rel_comp_ratio > 0 and rel_comp_time > 0.
C9_RowsPositive ==
    /\ err # "ZeroDivisionError"
    /\ \A i \in 1..Len(rows) :
         /\ RatLess(Zero, rows[i].abs_comp_ratio)
         /\ RatLess(Zero, rows[i].rel_comp_ratio)
         /\ RatLess(Zero, rows[i].rel_comp_time)

\* C10: at most one benchmark child runs at any time; while one runs the
\* script waits for it; and a child is started only when none is running
\* and the previous output has been parsed.
C10_Sequential ==
    /\ [](/\ inflight \in {0, 1}
          /\ inflight = 1 => (pc = "wait" /\ output = NoOutput)
          /\ output # NoOutput => (pc = "parse" /\ inflight = 0))
    /\ [][inflight' > inflight
            => (inflight = 0 /\ output = NoOutput /\ pc = "invoke")]_vars

\* C10 witness: the second baseline invocation of a pair is running.
C10_Witness == inflight = 1 /\ calls = [cand |-> NTRIES, base |-> 2]

\* ------------------------------------------------------ analyze claims
\* The rows of the group a statistic is named after, from the input file.
GroupOf(e) ==
    IF e.scope = "all" THEN report.rows
    ELSE IF e.scope = "file"
    THEN SelectSeq(report.rows, LAMBDA r : r.file = e.key)
    ELSE SelectSeq(report.rows, LAMBDA r : r.level = e.key)
IsWorse(e) == e.kind \in {"worse_comp_ratio", "worse_comp_time"}
FieldOf(e) ==
    IF e.kind \in {"avg_rel_comp_ratio", "worse_comp_ratio"}
    THEN "rel_comp_ratio" ELSE "rel_comp_time"
\* Rows of e's group whose ratio is strictly greater than 1.
Over(e) ==
    Cardinality({i \in 1..Len(GroupOf(e)) :
                    GroupOf(e)[i][FieldOf(e)][1] > GroupOf(e)[i][FieldOf(e)][2]})
\* The statistic as the claim defines it, unrounded.
Exact(e) ==
    IF IsWorse(e) THEN Rat(Len(GroupOf(e)) + Over(e), Len(GroupOf(e)))
    ELSE Mean(Field(GroupOf(e), FieldOf(e)))
\* v is x to six significant digits: within half a unit of the sixth digit
\* (relative error at most 5e-6) and written with at most six digits.
Close6(v, x) ==
    LET d == Abs(v[1] * x[2] - x[1] * v[2])
    IN  /\ d <= 1000
        /\ d * 2 * Pow10(SigDigits - 1) <= Abs(x[1]) * v[2]
        /\ \E k \in 0..SigDigits :
             /\ Pow10(k) % v[2] = 0
             /\ Abs(v[1]) * (Pow10(k) \div v[2]) <= Pow10(SigDigits)

\* C3 (as claimed): every statistic written equals 1 + (rows over 1) /
\* (group size), respectively the arithmetic mean, exactly.
C3_ExactStatistics ==
    apc = "done" => \A i \in 1..Len(aout) : aout[i].value = Exact(aout[i])

\* C3 (amended): every statistic written is that value rounded to six
\* significant digits; a worse_ value lies in [1, 2], is exactly 1 when no
\* row of the group is over 1, and is over 1 when more than one row in
\* 200000 is; a row at exactly 1 is not counted.
C3_RoundedStatistics ==
    apc = "done" =>
        \A i \in 1..Len(aout) :
            LET e == aout[i]
            IN  /\ Close6(e.value, Exact(e))
                /\ IsWorse(e) =>
                     /\ RatLeq(One, e.value) /\ RatLeq(e.value, <<2, 1>>)
                     /\ Over(e) = 0 => e.value = One
                     /\ e.value = One
                          => Over(e) * 2 * Pow10(SigDigits - 1) <= Len(GroupOf(e))

\* C3 witness: rows 0.9, 1.0, 1.1: the average is written as 1 and
\* worse_comp_ratio as 1.33333, which is not 1 + 1/3.
C3_Witness ==
    /\ apc = "done"
    /\ Field(report.rows, "rel_comp_ratio") = <<Rat(9, 10), One, Rat(11, 10)>>
    /\ aout[1].value = One
    /\ aout[3].value = <<133333, 100000>>
    /\ aout[3].value # Exact(aout[3])

KeysOf(f) == {report.rows[i][f] : i \in 1..Len(report.rows)}

\* The layout both readings of C4 share; Before(k1, k2) is the order of two
\* level keys.
SummaryLayout(Before(_, _)) ==
    LET nf == Cardinality(KeysOf("file"))
        nl == Cardinality(KeysOf("level"))
    IN  /\ aheader
        /\ Len(aout) = 4 + 4 * nf + 4 * nl
        /\ \A i, j \in 1..Len(aout) :
             i # j => <<aout[i].scope, aout[i].key, aout[i].kind>>
                        # <<aout[j].scope, aout[j].key, aout[j].kind>>
        /\ \A k \in 1..4 :
             /\ aout[k].scope = "all" /\ aout[k].kind = Kinds[k]
             /\ \A j \in 1..nf :
                  LET e == aout[4 + (k - 1) * nf + j]
                  IN  /\ e.scope = "file" /\ e.kind = Kinds[k]
                      /\ e.key \in KeysOf("file")
                      /\ j > 1 => LexLess(aout[4 + (k - 1) * nf + j - 1].key,
                                          e.key)
             /\ \A j \in 1..nl :
                  LET e == aout[4 + 4 * nf + (k - 1) * nl + j]
                  IN  /\ e.scope = "level" /\ e.kind = Kinds[k]
                      /\ e.key \in KeysOf("level")
                      /\ j > 1 =>
                           Before(aout[4 + 4 * nf + (k - 1) * nl + j - 1].key,
                                  e.key)

\* C4 (as claimed): a completed analyze has written the header, then the
\* four all_ statistics, then for the files and after them for the levels
\* one block per kind (avg_rel_comp_ratio, avg_rel_comp_time,
\* worse_comp_ratio, worse_comp_time), each block listing every file in
\* ascending name order, respectively every level in ascending order of
\* its value: 4 + 4 * files + 4 * levels entries, no name twice.
C4_SummaryOrder ==
    apc = "done" =>
        SummaryLayout(LAMBDA k1, k2 : LevelValue(k1) < LevelValue(k2))

\* C4 (amended): the same, the levels of a block being in ascending order
\* of their text compared as strings ('10' before '2'), which is the order
\* of their values when all levels have the same number of digits.
C4_SummaryOrderText ==
    apc = "done" => SummaryLayout(LAMBDA k1, k2 : LexLess(k1, k2))

\* C4 witness: two files given in descending order and the levels 2 and
\* 10; the level blocks list 10 before 2.
C4_Witness ==
    /\ apc = "done"
    /\ Len(aout) = 20
    /\ report.rows[1].file = fb /\ report.rows[2].file = fab
    /\ report.rows[1].level = LevelText(2) /\ report.rows[2].level = LevelText(10)
    /\ aout[13].key = LevelText(10) /\ aout[14].key = LevelText(2)

\* C7 (as claimed): analyze and compare that fail have written nothing,
\* not even the header.
C7_AllOrNothing ==
    /\ apc = "failed" => (~aheader /\ aout = <<>>)
    /\ cpc = "failed" => clines = <<>>

\* ------------------------------------------------------ compare claims
NamesIn(f) == {f[i].name : i \in 1..Len(f)}
ValueIn(f, n) == f[CHOOSE i \in 1..Len(f) : f[i].name = n].value

\* C5: a completed compare has printed exactly one line for each name
\* that is in both reports, none for any other name, in ascending order of
\* ratio.
C5_CommonSorted ==
    cpc = "done" =>
        /\ {clines[i].name : i \in 1..Len(clines)}
               = NamesIn(sfile[1]) \cap NamesIn(sfile[2])
        /\ Len(clines) = Cardinality(NamesIn(sfile[1]) \cap NamesIn(sfile[2]))
        /\ \A i \in 1..(Len(clines) - 1) :
             RatLeq(clines[i].ratio, clines[i + 1].ratio)

\* C5 witness: a: 1 and 1, b: 2 and 1, one more name in each report alone;
\* two lines, b before a.
C5_Witness ==
    /\ cpc = "done"
    /\ sfile[1] = <<[name |-> fa, value |-> One], [name |-> fb, value |-> <<2, 1>>],
                    [name |-> fc, value |-> One]>>
    /\ sfile[2] = <<[name |-> fa, value |-> One], [name |-> fb, value |-> One],
                    [name |-> fd, value |-> One]>>
    /\ Len(clines) = 2
    /\ clines[1].name = fb /\ clines[2].name = fa

\* C6 (as claimed): the arguments are (current, previous): each line shows
\* the second report's value before, the first report's value after, and
\* ratio = first report's value / second report's value.
C6_CurrentFirst ==
    cpc = "done" =>
        \A i \in 1..Len(clines) :
            LET cur == ValueIn(sfile[1], clines[i].name)
                prev == ValueIn(sfile[2], clines[i].name)
            IN  /\ clines[i].before = prev
                /\ clines[i].after = cur
                /\ clines[i].ratio[1] * prev[1] * cur[2]
                       = clines[i].ratio[2] * cur[1] * prev[2]

\* C6 (amended): the arguments are (previous, current): each line shows the
\* first report's value before, the second report's value after, and ratio
\* = second report's value / first report's value.
C6_PreviousFirst ==
    cpc = "done" =>
        \A i \in 1..Len(clines) :
            LET prev == ValueIn(sfile[1], clines[i].name)
                cur == ValueIn(sfile[2], clines[i].name)
            IN  /\ clines[i].before = prev
                /\ clines[i].after = cur
                /\ clines[i].ratio[1] * prev[1] * cur[2]
                       = clines[i].ratio[2] * cur[1] * prev[2]

\* C6 witness: a line whose first-report value is 2 and second-report
\* value is 1, printed as 2 => 1 (1/2).
C6_Witness ==
    /\ cpc = "done"
    /\ \E i \in 1..Len(clines) :
         /\ ValueIn(sfile[1], clines[i].name) = <<2, 1>>
         /\ ValueIn(sfile[2], clines[i].name) = One
         /\ clines[i].ratio = <<1, 2>>

=============================================================================
